---- MODULE Spec2Model ----
(***************************************************************************)
(* Model of the notes API (Kuigan/notes-app).                              *)
(*                                                                         *)
(* The repository has two variants of the notes router:                    *)
(*   src/src/routes/notes_mit_kommentaren.ts  the handlers do the          *)
(*       read / filter / push / write themselves, no authentication;       *)
(*   src/src/routes/notes.ts                  the handlers sit behind      *)
(*       hasAuthentication and call the data service (addNote,             *)
(*       updateNote, deleteNoteById).                                      *)
(* The data service (../services/data) and the middleware                  *)
(* (../middleware/auth) are not part of the sources at hand; what the      *)
(* model needs of them follows the specification (section 4.1, 6).         *)
(*                                                                         *)
(* The persisted collection is the variable file: the sequence of          *)
(* {id, title, content, user} records of the notes file.                   *)
(***************************************************************************)
EXTENDS Integers, Sequences, FiniteSets, TLC

VARIABLES file, router, req, res, inflight

vars == <<file, router, req, res, inflight>>

----------------------------------------------------------------------------
(* Bounds of the model *)

\* the sequential specification creates notes while fewer than MaxNotes are held
MaxNotes == 2

\* the overlapping-requests specification starts from a store of up to MaxInitial notes
MaxInitial == 2

Titles == {"T1", "T2"}
Contents == {"C1"}
Users == {"u1", "u2"}

\* a body field or header that the request does not carry (undefined in the code)
Absent == "absent"

\* parseInt(req.params.id): the ids a path can name; 0 is never assigned to a
\* note, and a non-numeric path (NaN) matches no note either
PathIds == 0 .. MaxNotes

Routers == {"kommentiert", "auth"}

\* the credential of the create and by-id requests of notes.ts: hasAuthentication
\* checks it, the handlers never read it
Caller == "u1"

----------------------------------------------------------------------------
(* Data *)

Note(id, title, content, user) ==
    [id |-> id, title |-> title, content |-> content, user |-> user]

\* Array.prototype.filter(note => note.id !== id)
FilterOut(notes, id) == SelectSeq(notes, LAMBDA n : n.id # id)

\* Array.prototype.find(note => note.id === id): index of the first match, 0 if none
RECURSIVE FindFrom(_, _, _)
FindFrom(notes, id, k) ==
    IF k > Len(notes) THEN 0
    ELSE IF notes[k].id = id THEN k
    ELSE FindFrom(notes, id, k + 1)

FindIndex(notes, id) == FindFrom(notes, id, 1)

\* getNoteById of the data service: the note found, as a sequence of zero or one note
getNoteById(notes, id) ==
    IF FindIndex(notes, id) = 0 THEN << >> ELSE << notes[FindIndex(notes, id)] >>

\* a ?? b
Coalesce(a, b) == IF a = Absent THEN b ELSE a

----------------------------------------------------------------------------
(* Requests and responses *)

\* req.body.id: a body may carry an id of the client's choosing (0: it carries
\* none); no handler reads it
BodyIds == {0, MaxNotes + 1}

NoBody == [id |-> 0, title |-> Absent, content |-> Absent, user |-> Absent]

\* bodies of POST and PUT: every field given
FullBodies == [id : BodyIds, title : Titles, content : Contents, user : Users]

\* bodies of PATCH: any field may be omitted
PartialBodies ==
    [id : {0}, title : Titles \cup {Absent}, content : Contents \cup {Absent},
     user : Users \cup {Absent}]

Request(method, path, id, body, auth) ==
    [method |-> method, path |-> path, id |-> id, body |-> body, auth |-> auth]

NoContent == [status |-> 204, body |-> << >>, notFound |-> -1]

Ok(notes) == [status |-> 200, body |-> notes, notFound |-> -1]

\* 404 with the message naming the id
NotFound(id) == [status |-> 404, body |-> << >>, notFound |-> id]

\* a slot that serves no request
Idle == [pc |-> "idle", wrote |-> 0]

----------------------------------------------------------------------------
(* The data service and the middleware, as the specification describes them *)

\* getNotes(): every note currently held, read from the notes file
getNotes == file

\* hasAuthentication: passes the requests that carry a credential header
hasAuthentication(header) == header # Absent

\* addNote: new id = count of existing notes + 1, appended
addNote(notes, title, content, user) ==
    Append(notes, Note(Len(notes) + 1, title, content, user))

\* updateNote: the note with that id gets the new field values, same id
updateNote(notes, id, title, content, user) ==
    Append(FilterOut(notes, id), Note(id, title, content, user))

\* deleteNoteById: the note with that id is removed
deleteNoteById(notes, id) == FilterOut(notes, id)

----------------------------------------------------------------------------
(* What each handler of notes_mit_kommentaren.ts writes to the file *)

PostNotesBugIdFromBody(oldNotes, body) ==
    Append(oldNotes, Note(IF body.id # 0 THEN body.id ELSE Len(oldNotes) + 1,
                          body.title, body.content, body.user))

\* POST /: id = oldNotes.length + 1, push, write
PostNotes(oldNotes, body) ==
    Append(oldNotes, Note(Len(oldNotes) + 1, body.title, body.content, body.user))

PutNotesBugUnshift(oldNotes, id, body) ==
    << Note(id, body.title, body.content, body.user) >> \o FilterOut(oldNotes, id)

\* PUT /:id: filter the old note out, push the replacement
PutNotes(oldNotes, id, body) ==
    Append(FilterOut(oldNotes, id), Note(id, body.title, body.content, body.user))

\* PATCH /:id: as PUT, each omitted field taken from the note found
PatchNotes(oldNotes, oldNote, id, body) ==
    Append(FilterOut(oldNotes, id),
           Note(id, Coalesce(body.title, oldNote.title),
                    Coalesce(body.content, oldNote.content),
                    Coalesce(body.user, oldNote.user)))

DeleteNotesBugFirstOnly(oldNotes, id) ==
    IF FindIndex(oldNotes, id) = 0 THEN oldNotes
    ELSE SubSeq(oldNotes, 1, FindIndex(oldNotes, id) - 1)
         \o SubSeq(oldNotes, FindIndex(oldNotes, id) + 1, Len(oldNotes))

\* DELETE /:id: filter the note out
DeleteNotes(oldNotes, id) == FilterOut(oldNotes, id)

ListForBugAll(notes, user) == notes

\* GET / of notes.ts: getNotes().filter(note => note.user === user)
ListFor(notes, user) == SelectSeq(notes, LAMBDA n : n.user = user)

----------------------------------------------------------------------------
(* Handlers of notes_mit_kommentaren.ts, each a whole request *)

Post ==
    /\ router = "kommentiert"
    /\ Len(file) < MaxNotes
    /\ \E body \in FullBodies :
         /\ req' = Request("POST", "/", 0, body, Absent)
         /\ file' = PostNotes(getNotes, body)
         /\ res' = NoContent
    /\ UNCHANGED <<router, inflight>>

GetAll ==
    /\ router = "kommentiert"
    /\ req' = Request("GET", "/", 0, NoBody, Absent)
    /\ res' = Ok(getNotes)
    /\ UNCHANGED <<file, router, inflight>>

GetById ==
    /\ router = "kommentiert"
    /\ \E id \in PathIds :
         /\ req' = Request("GET", "/:id", id, NoBody, Absent)
         /\ res' = IF FindIndex(getNotes, id) = 0
                   THEN NotFound(id)
                   ELSE Ok(<< getNotes[FindIndex(getNotes, id)] >>)
    /\ UNCHANGED <<file, router, inflight>>

Put ==
    /\ router = "kommentiert"
    /\ \E id \in PathIds, body \in FullBodies :
         /\ req' = Request("PUT", "/:id", id, body, Absent)
         /\ IF getNoteById(file, id) = << >>
            THEN /\ res' = NotFound(id)
                 /\ file' = file
            ELSE /\ file' = PutNotes(getNotes, id, body)
                 /\ res' = NoContent
    /\ UNCHANGED <<router, inflight>>

\* the body is read only after the 404 check (lines 140-151)
Patch ==
    /\ router = "kommentiert"
    /\ \E id \in PathIds :
         IF getNoteById(file, id) = << >>
         THEN /\ req' = Request("PATCH", "/:id", id, NoBody, Absent)
              /\ res' = NotFound(id)
              /\ file' = file
         ELSE \E body \in PartialBodies :
              /\ req' = Request("PATCH", "/:id", id, body, Absent)
              /\ file' = PatchNotes(getNotes, getNoteById(file, id)[1], id, body)
              /\ res' = NoContent
    /\ UNCHANGED <<router, inflight>>

DeleteBugNoPrecheck ==
    /\ router = "kommentiert"
    /\ \E id \in PathIds :
         /\ req' = Request("DELETE", "/:id", id, NoBody, Absent)
         /\ file' = DeleteNotes(getNotes, id)
         /\ res' = NoContent
    /\ UNCHANGED <<router, inflight>>

Delete ==
    /\ router = "kommentiert"
    /\ \E id \in PathIds :
         /\ req' = Request("DELETE", "/:id", id, NoBody, Absent)
         /\ IF getNoteById(file, id) = << >>
            THEN /\ res' = NotFound(id)
                 /\ file' = file
            ELSE /\ file' = DeleteNotes(getNotes, id)
                 /\ res' = NoContent
    /\ UNCHANGED <<router, inflight>>

----------------------------------------------------------------------------
(* Handlers of notes.ts: behind hasAuthentication, through the data service *)

AuthPost ==
    /\ router = "auth"
    /\ Len(file) < MaxNotes
    /\ \E body \in FullBodies :
         /\ hasAuthentication(Caller)
         /\ req' = Request("POST", "/", 0, body, Caller)
         /\ file' = addNote(file, body.title, body.content, body.user)
         /\ res' = NoContent
    /\ UNCHANGED <<router, inflight>>

AuthGetAll ==
    /\ router = "auth"
    /\ \E header \in Users :
         /\ hasAuthentication(header)
         /\ req' = Request("GET", "/", 0, NoBody, header)
         /\ res' = Ok(ListFor(getNotes, header))
    /\ UNCHANGED <<file, router, inflight>>

AuthGetById ==
    /\ router = "auth"
    /\ \E id \in PathIds :
         /\ hasAuthentication(Caller)
         /\ req' = Request("GET", "/:id", id, NoBody, Caller)
         /\ res' = IF getNoteById(file, id) = << >>
                   THEN NotFound(id)
                   ELSE Ok(getNoteById(file, id))
    /\ UNCHANGED <<file, router, inflight>>

AuthPut ==
    /\ router = "auth"
    /\ \E id \in PathIds, body \in FullBodies :
         /\ hasAuthentication(Caller)
         /\ req' = Request("PUT", "/:id", id, body, Caller)
         /\ IF getNoteById(file, id) = << >>
            THEN /\ res' = NotFound(id)
                 /\ file' = file
            ELSE /\ file' = updateNote(file, id, body.title, body.content, body.user)
                 /\ res' = NoContent
    /\ UNCHANGED <<router, inflight>>

\* the body is read only after the 404 check (lines 115-125)
AuthPatch ==
    /\ router = "auth"
    /\ hasAuthentication(Caller)
    /\ \E id \in PathIds :
         IF getNoteById(file, id) = << >>
         THEN /\ req' = Request("PATCH", "/:id", id, NoBody, Caller)
              /\ res' = NotFound(id)
              /\ file' = file
         ELSE \E body \in PartialBodies :
              /\ req' = Request("PATCH", "/:id", id, body, Caller)
              /\ file' = updateNote(file, id,
                             Coalesce(body.title, getNoteById(file, id)[1].title),
                             Coalesce(body.content, getNoteById(file, id)[1].content),
                             Coalesce(body.user, getNoteById(file, id)[1].user))
              /\ res' = NoContent
    /\ UNCHANGED <<router, inflight>>

AuthDelete ==
    /\ router = "auth"
    /\ \E id \in PathIds :
         /\ hasAuthentication(Caller)
         /\ req' = Request("DELETE", "/:id", id, NoBody, Caller)
         /\ IF getNoteById(file, id) = << >>
            THEN /\ res' = NotFound(id)
                 /\ file' = file
            ELSE /\ file' = deleteNoteById(file, id)
                 /\ res' = NoContent
    /\ UNCHANGED <<router, inflight>>

----------------------------------------------------------------------------
(* Sequential specification: one request at a time, from the empty store *)

Slots == {1, 2}

Init ==
    /\ file = << >>
    /\ router \in Routers
    /\ req = Request("NONE", "/", 0, NoBody, Absent)
    /\ res = [status |-> 0, body |-> << >>, notFound |-> -1]
    /\ inflight = [s \in Slots |-> Idle]

Next ==
    \/ Post
    \/ GetAll
    \/ GetById
    \/ Put
    \/ Patch
    \/ Delete
    \/ AuthPost
    \/ AuthGetAll
    \/ AuthGetById
    \/ AuthPut
    \/ AuthPatch
    \/ AuthDelete

Spec == Init /\ [][Next]_vars

----------------------------------------------------------------------------
(* Overlapping requests.  The handlers of notes_mit_kommentaren.ts touch   *)
(* the file three times: getNoteById, getNotes, writeNotesToFile.  Nothing *)
(* in the handlers serialises two requests against each other              *)
(* (specification, section 5), so the three accesses of one request may    *)
(* interleave with those of another.  Each slot serves one PUT or DELETE.  *)
(* stale and wrote record the order of the accesses: stale is set on a     *)
(* request that has read the collection when another request writes,       *)
(* wrote is the position of the request's write among the writes.          *)

\* stores that creates alone build from the empty store: ids 1 .. k
RECURSIVE StoresOfLen(_)
StoresOfLen(k) ==
    IF k = 0 THEN { << >> }
    ELSE { PostNotes(st, body) : st \in StoresOfLen(k - 1),
                                 body \in { b \in FullBodies : b.id = 0 } }

InitialStores == UNION { StoresOfLen(k) : k \in 0 .. MaxInitial }

Writes == Cardinality({ s \in Slots : inflight[s].wrote > 0 })

\* lines 101-111 and 177-184: read the request, getNoteById, 404 if undefined
Receive(s) ==
    /\ inflight[s].pc = "idle"
    /\ \E method \in {"PUT", "DELETE"}, id \in PathIds,
          body \in { b \in FullBodies : b.id = 0 } :
         /\ method = "DELETE" => body = CHOOSE b \in FullBodies : b.id = 0
         /\ inflight' = [inflight EXCEPT ![s] =
              [req |-> Request(method, "/:id", id,
                               IF method = "PUT" THEN body ELSE NoBody, Absent),
               pc |-> IF getNoteById(file, id) = << >> THEN "done" ELSE "checked",
               status |-> IF getNoteById(file, id) = << >> THEN 404 ELSE 0,
               oldNotes |-> << >>, stale |-> FALSE, wrote |-> 0]]
    /\ UNCHANGED <<file, router, req, res>>

\* lines 115 and 188: const oldNotes = getNotes()
ReadNotes(s) ==
    /\ inflight[s].pc = "checked"
    /\ inflight' = [inflight EXCEPT ![s] = [@ EXCEPT !.oldNotes = getNotes, !.pc = "read"]]
    /\ UNCHANGED <<file, router, req, res>>

MarkWrite(s) ==
    [t \in Slots |->
        IF t = s
        THEN [inflight[t] EXCEPT !.pc = "done", !.status = 204, !.wrote = Writes + 1]
        ELSE IF inflight[t].pc = "read"
             THEN [inflight[t] EXCEPT !.stale = TRUE]
             ELSE inflight[t]]

WriteBackBugReread(s) ==
    /\ inflight[s].pc = "read"
    /\ file' = IF inflight[s].req.method = "PUT"
               THEN PutNotes(file, inflight[s].req.id, inflight[s].req.body)
               ELSE DeleteNotes(file, inflight[s].req.id)
    /\ inflight' = MarkWrite(s)
    /\ UNCHANGED <<router, req, res>>

\* lines 116-129 and 189-196: filter (and push), writeNotesToFile, 204
WriteBack(s) ==
    /\ inflight[s].pc = "read"
    /\ file' = IF inflight[s].req.method = "PUT"
               THEN PutNotes(inflight[s].oldNotes, inflight[s].req.id, inflight[s].req.body)
               ELSE DeleteNotes(inflight[s].oldNotes, inflight[s].req.id)
    /\ inflight' = MarkWrite(s)
    /\ UNCHANGED <<router, req, res>>

InitOverlap ==
    /\ file \in InitialStores
    /\ router = "kommentiert"
    /\ req = Request("NONE", "/", 0, NoBody, Absent)
    /\ res = [status |-> 0, body |-> << >>, notFound |-> -1]
    /\ inflight = [s \in Slots |-> Idle]

NextOverlap ==
    \E s \in Slots :
        \/ Receive(s)
        \/ ReadNotes(s)
        \/ WriteBack(s)

SpecOverlap == InitOverlap /\ [][NextOverlap]_vars

----------------------------------------------------------------------------
(* Properties *)

NotesOf(notes) == { notes[k] : k \in DOMAIN notes }

WithId(notes, id) == { k \in DOMAIN notes : notes[k].id = id }

SameFields(note, body) ==
    /\ note.title = body.title
    /\ note.content = body.content
    /\ note.user = body.user

IsUpdate(r) == r.method \in {"PUT", "PATCH"}

\* the k-th smallest element of a set of indices
Nth(S, k) == CHOOSE i \in S : Cardinality({ m \in S : m <= i }) = k

\* C1: in every state reachable from the empty store by POST, PUT, PATCH and
\* DELETE requests, no two notes of the collection have the same id.
C1_UniqueIds ==
    router = "kommentiert" =>
    \A i, j \in DOMAIN file : i # j => file[i].id # file[j].id

\* C2: when a create has just stored a note (the last of the collection, under
\* id i), a get-by-id of i that follows at once answers 200 with a note whose
\* title, content and user are those the create supplied.
C2_CreateThenRead ==
    [][ ( /\ router = "kommentiert"
          /\ req.method = "POST"
          /\ req'.method = "GET"
          /\ req'.path = "/:id"
          /\ req'.id = file[Len(file)].id )
        => ( /\ res'.status = 200
             /\ Len(res'.body) = 1
             /\ SameFields(res'.body[1], req.body) ) ]_vars

\* C3: a successful PUT or PATCH on id i leaves the number of notes unchanged
\* and keeps every note other than the targeted one (the one get-by-id finds)
\* in the collection, with identical id, title, content and user.
C3_UpdateFrame ==
    [][ ( router = "kommentiert" /\ IsUpdate(req') /\ res'.status = 204 )
        => ( /\ Len(file') = Len(file)
             /\ \A k \in DOMAIN file :
                  k # FindIndex(file, req'.id) => file[k] \in NotesOf(file') ) ]_vars

C5_EmptyPatchNoOp ==
    [][ ( /\ router = "kommentiert"
          /\ req'.method = "PATCH"
          /\ res'.status = 204
          /\ req'.body = NoBody )
        => NotesOf(file') = NotesOf(file) ]_vars

\* C6: PUT, PATCH and DELETE on an id that no note of the collection has answer
\* 404 naming the id and leave the collection exactly as it was.
C6_MissingId ==
    [][ ( /\ req'.method \in {"PUT", "PATCH", "DELETE"}
          /\ WithId(file, req'.id) = {} )
        => ( /\ res'.status = 404
             /\ res'.notFound = req'.id
             /\ file' = file ) ]_vars

C6_Witness ==
    /\ req.method \in {"PUT", "PATCH", "DELETE"}
    /\ res.status = 404
    /\ Len(file) = MaxNotes
    /\ WithId(file, req.id) = {}
    /\ req.id > 0

\* C7: in the router of notes.ts, GET / with credential U answers 200 with
\* exactly the notes of the collection whose user is U, in store order (the
\* empty sequence when none matches).
C7_ListByUser ==
    ( router = "auth" /\ req.method = "GET" /\ req.path = "/" )
    => ( /\ res.status = 200
         /\ Len(res.body) = Cardinality({ k \in DOMAIN file : file[k].user = req.auth })
         /\ \A j \in DOMAIN res.body :
              res.body[j] = file[Nth({ k \in DOMAIN file : file[k].user = req.auth }, j)] )

C7_Witness ==
    /\ router = "auth"
    /\ req.method = "GET"
    /\ req.path = "/"
    /\ Len(res.body) = 1
    /\ Len(file) = 2
    /\ file[1].user # req.auth
    /\ file[2].user = req.auth
    /\ file[1].id = file[2].id

\* C8: create gives the new note the id (number of notes held before) + 1,
\* whatever id the body carries, appends it to the end of the collection with
\* the body's title, content and user, and writes the collection so extended.
C8_CreateAssignsId ==
    [][ req'.method = "POST"
        => ( /\ res'.status = 204
             /\ Len(file') = Len(file) + 1
             /\ SubSeq(file', 1, Len(file)) = file
             /\ file'[Len(file')].id = Len(file) + 1
             /\ SameFields(file'[Len(file')], req'.body) ) ]_vars

C8_Witness ==
    /\ req.method = "POST"
    /\ req.body.id # 0
    /\ Len(file) = 2
    /\ file[2].id = 2
    /\ file[2].id # req.body.id
    /\ SameFields(file[2], req.body)

\* C10: right after a successful PUT or PATCH on id i (notes_mit_kommentaren.ts)
\* the collection holds exactly one note with id i, and it is the last one.
C10_UpdatedIsLast ==
    ( router = "kommentiert" /\ IsUpdate(req) /\ res.status = 204 )
    => ( /\ Len(file) >= 1
         /\ file[Len(file)].id = req.id
         /\ Cardinality(WithId(file, req.id)) = 1 )

C10_Witness ==
    /\ router = "kommentiert"
    /\ IsUpdate(req)
    /\ res.status = 204
    /\ Len(file) = 2
    /\ req.body.id \notin {0, req.id}
    /\ file[2].id = req.id
    /\ file[1].id > req.id

\* the notes with a given id, in store order
Keep(notes, id) == SelectSeq(notes, LAMBDA n : n.id = id)

\* what a PUT or DELETE served alone makes of a collection
Alone(notes, r) ==
    IF r.method = "PUT" THEN PutNotes(notes, r.id, r.body) ELSE DeleteNotes(notes, r.id)

\* request a wrote first, request b had read the collection before that write
\* and wrote second, both answered 204
Overlapped(a, b) ==
    /\ a # b
    /\ inflight[a].pc = "done"
    /\ inflight[b].pc = "done"
    /\ inflight[a].status = 204
    /\ inflight[b].status = 204
    /\ inflight[a].wrote = 1
    /\ inflight[b].wrote = 2
    /\ inflight[b].stale

====
